---- MODULE Spec2Model ----
(***************************************************************************)
(* Kairos ML service (services/kairos-ml/app/main.py): the forecasting     *)
(* request broker.  The model covers the temporal-inference utilities, the *)
(* request validator, the dispatcher with its five backend adapters, the   *)
(* response assembler and the two endpoints /v1/forecast and               *)
(* /v1/forecast/batch.                                                     *)
(*                                                                         *)
(* Conventions.  Optional[X] is a sequence of length 0 (None) or 1         *)
(* (<<x>>).  A Python dict is the sequence of its entries in insertion     *)
(* order, with distinct keys.  A float is an integer (only lengths and     *)
(* None-ness of float data are read by the code modelled here); the        *)
(* interval level 0.95 is written in percent.                              *)
(***************************************************************************)
EXTENDS Integers, Sequences, FiniteSets, TLC

VARIABLES
    endpoint,       \* "forecast" | "forecast_batch" | "util"
    body,           \* the request body: a ForecastRequest, or the batch's items
    pc,             \* position of the call
    idx,            \* 1-based position of the comprehension in req.items
    out_items,      \* BatchForecastResponseItems built so far
    step,           \* run_forecast local step (None before line 606)
    last_ds,        \* run_forecast local last_ds
    fc,             \* (yhat, yhat_lower, yhat_upper) returned by the adapter
    freq,           \* adapter local: infer_frequency(step_seconds)
    season_length,  \* adapter local: season length handed to the backend
    ret,            \* value returned by run_forecast
    response,       \* value returned by the endpoint
    error,          \* HTTPException raised out of the endpoint
    calls           \* adapter invocations so far, with their outcomes

vars == <<endpoint, body, pc, idx, out_items, step, last_ds, fc, freq,
          season_length, ret, response, error, calls>>

(***************************************************************************)
(* Bounds of the model.                                                    *)
(***************************************************************************)
MaxLen == 2         \* longest history (ds, y, regressor values)
MaxHorizon == 2     \* largest horizon
MaxItems == 3       \* longest batch
MaxTsLen == 4       \* longest timestamp list given to the utilities alone
MaxObs == 27        \* longest history given to forecast_ets alone
MaxSeason == 14     \* largest config seasonLength given to forecast_ets alone

(***************************************************************************)
(* Optional values and dicts.                                              *)
(***************************************************************************)
Null == <<>>
Some(x) == <<x>>

RECURSIVE dict_has(_, _)
dict_has(d, key) ==
    IF d = <<>> THEN FALSE
    ELSE IF Head(d).key = key THEN TRUE
    ELSE dict_has(Tail(d), key)

RECURSIVE dict_get(_, _, _)
dict_get(d, key, default) ==
    IF d = <<>> THEN default
    ELSE IF Head(d).key = key THEN Head(d).value
    ELSE dict_get(Tail(d), key, default)

Keys(d) == {d[j].key : j \in 1..Len(d)}

(***************************************************************************)
(* Utility functions.                                                      *)
(***************************************************************************)

\* Civil date of a day count since 1970-01-01 (proleptic Gregorian), as
\* datetime.fromtimestamp computes it.
civil_from_days(days) ==
    LET z   == days + 719468
        era == z \div 146097
        doe == z - era * 146097
        yoe == (doe - doe \div 1460 + doe \div 36524 - doe \div 146096) \div 365
        doy == doe - (365 * yoe + yoe \div 4 - yoe \div 100)
        mp  == (5 * doy + 2) \div 153
        d   == doy - (153 * mp + 2) \div 5 + 1
        m   == IF mp < 10 THEN mp + 3 ELSE mp - 9
        y   == yoe + era * 400 + (IF m <= 2 THEN 1 ELSE 0)
    IN  [year |-> y, month |-> m, day |-> d]

\* The ISO 8601 string "YYYY-MM-DDTHH:MM:SSZ", held as its fields; the
\* microsecond field is cleared and the offset "+00:00" is replaced by "Z".
iso_from_seconds(seconds) ==
    LET days == seconds \div 86400
        sod  == seconds % 86400
        c    == civil_from_days(days)
    IN  [year |-> c.year, month |-> c.month, day |-> c.day,
         hour |-> sod \div 3600, minute |-> (sod % 3600) \div 60,
         second |-> sod % 60, microsecond |-> 0, offset |-> "Z"]

\* for i in range(1, len(ds)): diff = ds[i] - ds[i-1]; if diff > 0: append
RECURSIVE positive_diffs(_, _)
positive_diffs(ds, i) ==
    IF i > Len(ds) THEN <<>>
    ELSE LET diff == ds[i] - ds[i - 1]
         IN  (IF diff > 0 THEN <<diff>> ELSE <<>>) \o positive_diffs(ds, i + 1)

\* list.sort(): ascending insertion sort
RECURSIVE insert_sorted(_, _)
insert_sorted(s, x) ==
    IF s = <<>> THEN <<x>>
    ELSE IF x <= Head(s) THEN <<x>> \o s
    ELSE <<Head(s)>> \o insert_sorted(Tail(s), x)

RECURSIVE sort(_)
sort(s) == IF s = <<>> THEN <<>> ELSE insert_sorted(sort(Tail(s)), Head(s))

\* mutant: the upper middle value is taken for an even count
median_of_sorted_upper(diffs) == diffs[Len(diffs) \div 2 + 1]

\* diffs[mid] for an odd count, int((diffs[mid-1] + diffs[mid]) / 2) for an
\* even one (0-based in the source, 1-based here).  The operands are positive,
\* so int() of the quotient is its floor.
median_of_sorted(diffs) ==
    LET mid == Len(diffs) \div 2
    IN  IF Len(diffs) % 2 = 1 THEN diffs[mid + 1]
        ELSE (diffs[mid] + diffs[mid + 1]) \div 2

infer_step_seconds(ds) ==
    IF Len(ds) < 2 THEN 60 * 60 * 24
    ELSE LET diffs == positive_diffs(ds, 2)
         IN  IF diffs = <<>> THEN 60 * 60 * 24
             ELSE median_of_sorted(sort(diffs))

\* mutant: exclusive upper boundaries
infer_frequency_exclusive(step_seconds) ==
    IF step_seconds < 3600 THEN "h"
    ELSE IF step_seconds < 86400 THEN "D"
    ELSE IF step_seconds < 604800 THEN "W"
    ELSE "MS"

infer_frequency(step_seconds) ==
    IF step_seconds <= 3600 THEN "h"
    ELSE IF step_seconds <= 86400 THEN "D"
    ELSE IF step_seconds <= 604800 THEN "W"
    ELSE "MS"

infer_season_length(step_seconds) ==
    IF step_seconds <= 3600 THEN 24
    ELSE IF step_seconds <= 86400 THEN 7
    ELSE IF step_seconds <= 604800 THEN 52
    ELSE 12

(***************************************************************************)
(* run_forecast: the validator (lines 569-604).  Each check gives the      *)
(* detail of the HTTPException(400) it raises, or None.                    *)
(***************************************************************************)
check_length_mismatch(req) ==
    IF Len(req.ds) # Len(req.y)
    THEN Some("Training data length mismatch.") ELSE Null

\* mutant: the minimum is one observation
check_min_observations_one(req) ==
    IF Len(req.ds) < 1
    THEN Some("At least 2 observations are required.") ELSE Null

check_min_observations(req) ==
    IF Len(req.ds) < 2
    THEN Some("At least 2 observations are required.") ELSE Null

check_regressors_model(req) ==
    IF req.regressors # Null /\ req.model # "PROPHET"
    THEN Some("Regressors are only supported for PROPHET.") ELSE Null

check_future_without_regressors(req) ==
    IF req.regressorsFuture # Null /\ req.regressors = Null
    THEN Some("Future regressor values were provided without regressors.")
    ELSE Null

\* mutant: the key is not looked up in regressorsFuture
RECURSIVE regressors_loop_nokey(_, _, _)
regressors_loop_nokey(entries, n, future) ==
    IF entries = <<>> THEN Null
    ELSE LET e == Head(entries)
         IN  IF Len(e.value) # n
             THEN Some("Regressor '" \o e.key \o "' length mismatch.")
             ELSE regressors_loop_nokey(Tail(entries), n, future)

\* for key, values in req.regressors.items(): ...
RECURSIVE regressors_loop(_, _, _)
regressors_loop(entries, n, future) ==
    IF entries = <<>> THEN Null
    ELSE LET e == Head(entries)
         IN  IF Len(e.value) # n
             THEN Some("Regressor '" \o e.key \o "' length mismatch.")
             ELSE IF ~dict_has(future, e.key)
             THEN Some("Future regressor '" \o e.key \o "' is missing.")
             ELSE regressors_loop(Tail(entries), n, future)

check_regressors(req) ==
    IF req.regressors # Null
    THEN IF req.regressorsFuture = Null
         THEN Some("Future regressor values are required when regressors are provided.")
         ELSE regressors_loop(req.regressors[1], Len(req.y), req.regressorsFuture[1])
    ELSE Null

\* for key, values in req.regressorsFuture.items(): ...
RECURSIVE future_loop(_, _)
future_loop(entries, horizon) ==
    IF entries = <<>> THEN Null
    ELSE LET e == Head(entries)
         IN  IF Len(e.value) # horizon
             THEN Some("Future regressor '" \o e.key \o "' length mismatch.")
             ELSE future_loop(Tail(entries), horizon)

check_regressors_future(req) ==
    IF req.regressorsFuture # Null
    THEN future_loop(req.regressorsFuture[1], req.horizon)
    ELSE Null

\* The first check that raises decides.
RECURSIVE first_raised(_)
first_raised(details) ==
    IF details = <<>> THEN Null
    ELSE IF Head(details) # Null THEN Head(details)
    ELSE first_raised(Tail(details))

\* mutant: the model check placed after the regressor checks
validate_model_last(req) ==
    first_raised(<<check_length_mismatch(req),
                   check_min_observations(req),
                   check_future_without_regressors(req),
                   check_regressors(req),
                   check_regressors_future(req),
                   check_regressors_model(req)>>)

validate(req) ==
    first_raised(<<check_length_mismatch(req),
                   check_min_observations(req),
                   check_regressors_model(req),
                   check_future_without_regressors(req),
                   check_regressors(req),
                   check_regressors_future(req)>>)

(***************************************************************************)
(* Backend adapters.  The fitting and prediction engines are external: an  *)
(* adapter's outcome is either an exception raised by the engine or the    *)
(* triple the adapter builds from the engine's frame.  An outcome records  *)
(* the engine calls made, in order.                                        *)
(***************************************************************************)
Fill(n, v) == [j \in 1..n |-> v]

Raised(msg, engine) ==
    [raised |-> TRUE, msg |-> msg, out |-> Null, engine |-> engine]

Returned(yhat, yhat_lower, yhat_upper, engine) ==
    [raised |-> FALSE, msg |-> "",
     out |-> Some([yhat |-> yhat, yhat_lower |-> yhat_lower,
                   yhat_upper |-> yhat_upper]),
     engine |-> engine]

\* sf.fit(df) or sf.predict(h=horizon, level=[95]) raising
engine_failures ==
    {Raised("engine failure", <<"fit">>),
     Raised("engine failure", <<"fit", "predict">>)}

config_dict(config) == IF config = Null THEN <<>> ELSE config[1]

\* mutant: two full cycles are not enough, more are asked for
ets_season_length_strict(ds, y, config) ==
    LET step_seconds == infer_step_seconds(ds)
        n_obs == Len(y)
        base_season_length ==
            dict_get(config_dict(config), "seasonLength",
                     infer_season_length(step_seconds))
    IN  IF n_obs > 2 * base_season_length THEN base_season_length
        ELSE IF n_obs > 26 /\ step_seconds <= 604800 THEN 13
        ELSE IF n_obs > 14 THEN 7
        ELSE 1

\* forecast_ets, lines 218-233: the season length handed to AutoETS
ets_season_length(ds, y, config) ==
    LET step_seconds == infer_step_seconds(ds)
        n_obs == Len(y)
        base_season_length ==
            dict_get(config_dict(config), "seasonLength",
                     infer_season_length(step_seconds))
    IN  IF n_obs >= 2 * base_season_length THEN base_season_length
        ELSE IF n_obs >= 26 /\ step_seconds <= 604800 THEN 13
        ELSE IF n_obs >= 14 THEN 7
        ELSE 1

\* forecast_ets line 245: Error, Trend, Seasonal
ets_model_spec(season) == IF season > 1 THEN "ZAZ" ELSE "ZAN"

\* forecast_arima line 279, forecast_theta line 320
config_season_length(ds, config) ==
    dict_get(config_dict(config), "seasonLength",
             infer_season_length(infer_step_seconds(ds)))

\* statsforecast adapters (ETS, ARIMA, THETA): predict(h=horizon) gives horizon
\* rows; each bound column is the frame's column (floats) or, when the frame
\* lacks it, pd.Series([None] * horizon).
statsforecast_outcomes(horizon) ==
    engine_failures \cup
    {Returned(Fill(horizon, Some(10)), lo, hi, <<"fit", "predict">>) :
        lo \in {Fill(horizon, Some(8)), Fill(horizon, Null)},
        hi \in {Fill(horizon, Some(12)), Fill(horizon, Null)}}

\* forecast_prophet lines 381-385: for key, values in regressors.items()
RECURSIVE prophet_history_loop(_, _)
prophet_history_loop(entries, n) ==
    IF entries = <<>> THEN Null
    ELSE IF Len(Head(entries).value) # n
    THEN Some("Regressor '" \o Head(entries).key \o "' length mismatch.")
    ELSE prophet_history_loop(Tail(entries), n)

\* forecast_prophet lines 412-418: for key in regressors.keys()
RECURSIVE prophet_future_loop(_, _, _)
prophet_future_loop(entries, future, horizon) ==
    IF entries = <<>> THEN Null
    ELSE LET key == Head(entries).key
         IN  IF ~dict_has(future, key)
             THEN Some("Future regressor '" \o key \o "' is missing.")
             ELSE IF Len(dict_get(future, key, <<>>)) # horizon
             THEN Some("Future regressor '" \o key \o "' length mismatch.")
             ELSE prophet_future_loop(Tail(entries), future, horizon)

\* forecast_prophet lines 409-418, run after model.fit(df)
prophet_future_check(regressors, regressors_future, horizon) ==
    IF regressors = Null THEN Null
    ELSE IF regressors_future = Null
    THEN Some("Future regressor values are required when regressors are provided.")
    ELSE prophet_future_loop(regressors[1], regressors_future[1], horizon)

forecast_prophet(ds, y, horizon, config, regressors, regressors_future) ==
    LET early == IF regressors = Null THEN Null
                 ELSE prophet_history_loop(regressors[1], Len(y))
        late  == prophet_future_check(regressors, regressors_future, horizon)
    IN  IF early # Null THEN {Raised(early[1], <<>>)}
        ELSE {Raised("engine failure", <<"fit">>)} \cup
             (IF late # Null THEN {Raised(late[1], <<"fit">>)}
              ELSE {Raised("engine failure", <<"fit", "predict">>),
                    Returned(Fill(horizon, Some(10)), Fill(horizon, Some(8)),
                             Fill(horizon, Some(12)), <<"fit", "predict">>)})

\* forecast_neuralprophet: the rows after the last history date are kept and
\* every bound is None (lines 487-492).
forecast_neuralprophet(horizon) ==
    engine_failures \cup
    {Returned(Fill(n, Some(10)), Fill(n, Null), Fill(n, Null),
              <<"fit", "predict">>) : n \in 0..horizon}

(***************************************************************************)
(* Response assembler (lines 636-666).                                     *)
(***************************************************************************)
interval_level == 95

Min(a, b) == IF a <= b THEN a ELSE b

\* mutant: the enumeration starts at 0
build_points_from_zero(last, stp, out) ==
    LET n == Min(Len(out.yhat), Min(Len(out.yhat_lower), Len(out.yhat_upper)))
    IN  [i \in 1..n |->
            [t |-> iso_from_seconds(last + stp * (i - 1)),
             yhat |-> IF out.yhat[i] # Null THEN out.yhat[i][1] ELSE 0,
             yhatLower |-> out.yhat_lower[i],
             yhatUpper |-> out.yhat_upper[i],
             isFuture |-> TRUE]]

\* enumerate(zip(yhat, yhat_lower, yhat_upper), start=1)
build_points(last, stp, out) ==
    LET n == Min(Len(out.yhat), Min(Len(out.yhat_lower), Len(out.yhat_upper)))
    IN  [i \in 1..n |->
            [t |-> iso_from_seconds(last + stp * i),
             yhat |-> IF out.yhat[i] # Null THEN out.yhat[i][1] ELSE 0,
             yhatLower |-> out.yhat_lower[i],
             yhatUpper |-> out.yhat_upper[i],
             isFuture |-> TRUE]]

\* mutant: the level is reported whatever the points hold
build_interval_level_always(points) == Some(interval_level)

build_interval_level(points) ==
    IF \E i \in 1..Len(points) : points[i].yhatLower # Null
    THEN Some(interval_level) ELSE Null

build_response(req, points) ==
    [points |-> points,
     meta |-> [horizon |-> req.horizon,
               historyCount |-> Len(req.ds),
               intervalLevel |-> build_interval_level(points),
               metrics |-> [sampleCount |-> Len(req.ds), mae |-> Null,
                            rmse |-> Null, mape |-> Null]]]

\* BatchForecastResponseItem(id=item.id, **run_forecast(item).model_dump())
batch_item(item, resp) ==
    [id |-> item.id, points |-> resp.points, meta |-> resp.meta]

\* mutant: results collected in reverse
append_item_prepend(items, item, resp) == <<batch_item(item, resp)>> \o items

\* lines 560-563: the list comprehension keeps the items' order
append_item(items, item, resp) == Append(items, batch_item(item, resp))

(***************************************************************************)
(* Inputs.                                                                 *)
(***************************************************************************)
SeqsUpTo(S, n) == UNION {[1..k -> S] : k \in 0..n}

Models == {"ETS", "PROPHET", "ARIMA", "THETA", "NEURALPROPHET"}

\* 1970-01-01T00:00:00Z and 1984-02-29T23:30:45Z
Timestamps == {0, 446945445}

RegressorKeys == {"a", "b"}

\* dicts over RegressorKeys whose value lists have a length in lens
Dicts(lens) ==
    LET entry == {[key |-> k, value |-> Fill(l, 0)] : k \in RegressorKeys, l \in lens}
    IN  {<<>>} \cup {<<e>> : e \in entry}
        \cup {d \in {<<e1, e2>> : e1 \in entry, e2 \in entry} : d[1].key # d[2].key}

\* the same, keys in one insertion order only
SortedDicts(lens) ==
    {d \in Dicts(lens) : Len(d) = 2 => (d[1].key = "a" /\ d[2].key = "b")}

Optional(S) == {Null} \cup {Some(x) : x \in S}

Configs == Optional({<<[key |-> "intervalWidth", value |-> 80]>>})

ForecastRequests ==
    [model : Models,
     ds : SeqsUpTo(Timestamps, MaxLen),
     y : {Fill(n, 1) : n \in 0..MaxLen},
     horizon : 1..MaxHorizon,
     config : Configs,
     regressors : Optional(Dicts((MaxLen - 1)..MaxLen)),
     regressorsFuture : Optional(SortedDicts((MaxHorizon - 1)..MaxHorizon))]

BatchIds == {"x", "y"}

\* two models on two well-formed series, and one series that is too short
BatchSeries ==
    {<<"ETS", <<0, 446945445>>>>,
     <<"NEURALPROPHET", <<446945445, 446945445>>>>,
     <<"THETA", <<446945445>>>>}

BatchForecastRequestItems ==
    {[id |-> i, model |-> b[1], ds |-> b[2], y |-> Fill(Len(b[2]), 1),
      horizon |-> 1, config |-> Null, regressors |-> Null,
      regressorsFuture |-> Null] : i \in BatchIds, b \in BatchSeries}

\* timestamps given to the utilities alone
UtilTimestamps ==
    {0, 100, 3600, 3601, 7200, 10000, 10800, 86400, 86401, 604800, 604801}

(***************************************************************************)
(* Initial states.                                                         *)
(***************************************************************************)
InitLocals ==
    /\ idx = 1
    /\ out_items = <<>>
    /\ step = Null
    /\ last_ds = Null
    /\ fc = Null
    /\ freq = Null
    /\ season_length = Null
    /\ ret = Null
    /\ response = Null
    /\ error = Null
    /\ calls = <<>>

InitForecast ==
    /\ endpoint = "forecast"
    /\ body \in ForecastRequests
    /\ pc = "validate"
    /\ InitLocals

InitBatch ==
    /\ endpoint = "forecast_batch"
    /\ body \in SeqsUpTo(BatchForecastRequestItems, MaxItems)
    /\ pc = "iter"
    /\ InitLocals

Init == InitForecast \/ InitBatch

(***************************************************************************)
(* run_forecast.                                                           *)
(***************************************************************************)
\* the argument of the run_forecast call in progress
CurrentReq == IF endpoint = "forecast" THEN body ELSE body[idx]

\* lines 567-608: the validator, then step, last_ds.  An HTTPException leaves
\* run_forecast and the endpoint (neither catches it).
Validate ==
    /\ pc = "validate"
    /\ LET req == CurrentReq
           detail == validate(req)
       IN  IF detail # Null
           THEN /\ error' = Some([status_code |-> 400, detail |-> detail[1]])
                /\ pc' = "done"
                /\ UNCHANGED <<step, last_ds>>
           ELSE /\ step' = Some(infer_step_seconds(req.ds))
                /\ last_ds' = Some(req.ds[Len(req.ds)])
                /\ pc' = "dispatch"
                /\ UNCHANGED error
    /\ UNCHANGED <<endpoint, body, idx, out_items, fc, freq, season_length,
                   ret, response, calls>>

\* mutant: an exception of the adapter is swallowed and an empty forecast used
Dispatch_swallow(adapter, outcomes, frequency, season) ==
    /\ pc = "dispatch"
    /\ CurrentReq.model = adapter
    /\ \E o \in outcomes :
        /\ calls' = Append(calls, [item |-> idx, adapter |-> adapter,
                                   engine |-> o.engine, raised |-> o.raised,
                                   msg |-> o.msg, out |-> o.out])
        /\ fc' = IF o.raised
                 THEN Some([yhat |-> <<>>, yhat_lower |-> <<>>, yhat_upper |-> <<>>])
                 ELSE o.out
        /\ pc' = "assemble"
        /\ UNCHANGED error
    /\ freq' = frequency
    /\ season_length' = season
    /\ UNCHANGED <<endpoint, body, idx, out_items, step, last_ds, ret, response>>

\* lines 610-634: one adapter call inside try/except Exception
Dispatch(adapter, outcomes, frequency, season) ==
    /\ pc = "dispatch"
    /\ CurrentReq.model = adapter
    /\ \E o \in outcomes :
        /\ calls' = Append(calls, [item |-> idx, adapter |-> adapter,
                                   engine |-> o.engine, raised |-> o.raised,
                                   msg |-> o.msg, out |-> o.out])
        /\ IF o.raised
           THEN /\ error' = Some([status_code |-> 500,
                                  detail |-> "Forecast failed: " \o o.msg])
                /\ pc' = "done"
                /\ UNCHANGED fc
           ELSE /\ fc' = o.out
                /\ pc' = "assemble"
                /\ UNCHANGED error
    /\ freq' = frequency
    /\ season_length' = season
    /\ UNCHANGED <<endpoint, body, idx, out_items, step, last_ds, ret, response>>

AdapterFrequency == Some(infer_frequency(infer_step_seconds(CurrentReq.ds)))

ForecastEts ==
    Dispatch("ETS", statsforecast_outcomes(CurrentReq.horizon), AdapterFrequency,
             Some(ets_season_length(CurrentReq.ds, CurrentReq.y, CurrentReq.config)))

ForecastProphet ==
    Dispatch("PROPHET",
             forecast_prophet(CurrentReq.ds, CurrentReq.y, CurrentReq.horizon,
                              CurrentReq.config, CurrentReq.regressors,
                              CurrentReq.regressorsFuture),
             AdapterFrequency, Null)

ForecastArima ==
    Dispatch("ARIMA", statsforecast_outcomes(CurrentReq.horizon), AdapterFrequency,
             Some(config_season_length(CurrentReq.ds, CurrentReq.config)))

ForecastTheta ==
    Dispatch("THETA", statsforecast_outcomes(CurrentReq.horizon), AdapterFrequency,
             Some(config_season_length(CurrentReq.ds, CurrentReq.config)))

ForecastNeuralProphet ==
    Dispatch("NEURALPROPHET", forecast_neuralprophet(CurrentReq.horizon),
             AdapterFrequency, Null)

\* lines 636-666
BuildResponse ==
    /\ pc = "assemble"
    /\ ret' = Some(build_response(CurrentReq,
                                  build_points(last_ds[1], step[1], fc[1])))
    /\ pc' = "returned"
    /\ UNCHANGED <<endpoint, body, idx, out_items, step, last_ds, fc, freq,
                   season_length, response, error, calls>>

(***************************************************************************)
(* Endpoints.                                                              *)
(***************************************************************************)
\* forecast, line 554
ForecastReturn ==
    /\ pc = "returned"
    /\ endpoint = "forecast"
    /\ response' = ret
    /\ pc' = "done"
    /\ UNCHANGED <<endpoint, body, idx, out_items, step, last_ds, fc, freq,
                   season_length, ret, error, calls>>

\* forecast_batch, lines 561-562: the comprehension takes the next item
BatchNextItem ==
    /\ pc = "iter"
    /\ endpoint = "forecast_batch"
    /\ idx <= Len(body)
    /\ pc' = "validate"
    /\ UNCHANGED <<endpoint, body, idx, out_items, step, last_ds, fc, freq,
                   season_length, ret, response, error, calls>>

\* line 561: the item's response is wrapped and appended; run_forecast's
\* frame is gone
BatchAppend ==
    /\ pc = "returned"
    /\ endpoint = "forecast_batch"
    /\ out_items' = append_item(out_items, body[idx], ret[1])
    /\ idx' = idx + 1
    /\ pc' = "iter"
    /\ step' = Null
    /\ last_ds' = Null
    /\ fc' = Null
    /\ freq' = Null
    /\ season_length' = Null
    /\ ret' = Null
    /\ UNCHANGED <<endpoint, body, response, error, calls>>

\* lines 559-564: the comprehension is exhausted
BatchReturn ==
    /\ pc = "iter"
    /\ endpoint = "forecast_batch"
    /\ idx > Len(body)
    /\ response' = Some([items |-> out_items])
    /\ pc' = "done"
    /\ UNCHANGED <<endpoint, body, idx, out_items, step, last_ds, fc, freq,
                   season_length, ret, error, calls>>

Next ==
    \/ Validate
    \/ ForecastEts
    \/ ForecastProphet
    \/ ForecastArima
    \/ ForecastTheta
    \/ ForecastNeuralProphet
    \/ BuildResponse
    \/ ForecastReturn
    \/ BatchNextItem
    \/ BatchAppend
    \/ BatchReturn

Spec == Init /\ [][Next]_vars

(***************************************************************************)
(* The temporal-inference utilities called on their own.                   *)
(***************************************************************************)
InitUtil ==
    /\ endpoint = "util"
    /\ body \in SeqsUpTo(UtilTimestamps, MaxTsLen)
    /\ pc = "infer_step_seconds"
    /\ InitLocals

UtilInferStep ==
    /\ pc = "infer_step_seconds"
    /\ step' = Some(infer_step_seconds(body))
    /\ pc' = "infer_frequency"
    /\ UNCHANGED <<endpoint, body, idx, out_items, last_ds, fc, freq,
                   season_length, ret, response, error, calls>>

UtilInferFrequency ==
    /\ pc = "infer_frequency"
    /\ freq' = Some(infer_frequency(step[1]))
    /\ pc' = "infer_season_length"
    /\ UNCHANGED <<endpoint, body, idx, out_items, step, last_ds, fc,
                   season_length, ret, response, error, calls>>

UtilInferSeasonLength ==
    /\ pc = "infer_season_length"
    /\ season_length' = Some(infer_season_length(step[1]))
    /\ pc' = "done"
    /\ UNCHANGED <<endpoint, body, idx, out_items, step, last_ds, fc, freq,
                   ret, response, error, calls>>

NextUtil == UtilInferStep \/ UtilInferFrequency \/ UtilInferSeasonLength

SpecUtil == InitUtil /\ [][NextUtil]_vars

(***************************************************************************)
(* Vocabulary of the properties.                                           *)
(***************************************************************************)
InService == endpoint \in {"forecast", "forecast_batch"}

\* positions of the requests of the call: 1 for /v1/forecast
ItemIndices ==
    IF endpoint = "forecast" THEN {1}
    ELSE IF endpoint = "forecast_batch" THEN 1..Len(body)
    ELSE {}

ReqAt(j) == IF endpoint = "forecast" THEN body ELSE body[j]

\* a run_forecast call is in progress or has just ended on item idx
InCall == idx \in ItemIndices

CallsOf(j) == {n \in 1..Len(calls) : calls[n].item = j}

LastOf(seq) == seq[Len(seq)]

\* Days since 1970-01-01 of a civil date.
days_from_civil(y, m, d) ==
    LET yy  == IF m <= 2 THEN y - 1 ELSE y
        era == yy \div 400
        yoe == yy - era * 400
        doy == (153 * (IF m > 2 THEN m - 3 ELSE m + 9) + 2) \div 5 + d - 1
        doe == yoe * 365 + yoe \div 4 - yoe \div 100 + doy
    IN  era * 146097 + doe - 719468

\* A well-formed second-precision UTC timestamp with the Z suffix.
IsIsoZ(t) ==
    /\ t.month \in 1..12
    /\ t.day \in 1..31
    /\ t.hour \in 0..23
    /\ t.minute \in 0..59
    /\ t.second \in 0..59
    /\ t.microsecond = 0
    /\ t.offset = "Z"

\* The instant an ISO timestamp denotes, in epoch seconds.
seconds_of_iso(t) ==
    days_from_civil(t.year, t.month, t.day) * 86400
        + t.hour * 3600 + t.minute * 60 + t.second

(***************************************************************************)
(* C1.  In forecast_batch, when the backend of item k raises, the call     *)
(* still returns a response that holds the result of every sibling item    *)
(* whose pipeline succeeded; the failure of one item does not abort the    *)
(* batch.  (The code lets the exception leave the comprehension.)          *)
(***************************************************************************)
C1_BatchIsolatesFailure ==
    \A n \in 1..Len(calls) :
        (endpoint = "forecast_batch" /\ pc = "done" /\ calls[n].raised)
        => /\ response # Null
           /\ \A j \in 1..Len(out_items) :
                \E m \in 1..Len(response[1].items) :
                    response[1].items[m] = out_items[j]

(***************************************************************************)
(* C2.  A batch response has one item per submitted item, in the submitted *)
(* order; the j-th response item carries the j-th request item's id        *)
(* unchanged and the result computed from that item's series: its history  *)
(* count and horizon, as many points as that item's backend returned, at   *)
(* the instants that follow that item's last timestamp.                    *)
(***************************************************************************)
C2_BatchOrderAndIds ==
    (endpoint = "forecast_batch" /\ response # Null)
    => LET items == response[1].items
       IN  /\ Len(items) = Len(body)
           /\ \A j \in 1..Len(body) :
                /\ items[j].id = body[j].id
                /\ items[j].meta.historyCount = Len(body[j].ds)
                /\ items[j].meta.horizon = body[j].horizon
                /\ \E n \in CallsOf(j) :
                     Len(items[j].points) = Len(calls[n].out[1].yhat)
                /\ \A i \in 1..Len(items[j].points) :
                     seconds_of_iso(items[j].points[i].t)
                        = LastOf(body[j].ds) + i * infer_step_seconds(body[j].ds)

\* a full batch with a repeated id, different series and different results
C2_Witness ==
    /\ endpoint = "forecast_batch"
    /\ response # Null
    /\ Len(body) = MaxItems
    /\ body[1].id = body[2].id
    /\ body[1].ds # body[2].ds
    /\ Len(response[1].items[1].points) = 1
    /\ Len(response[1].items[2].points) = 1
    /\ response[1].items[1].points # response[1].items[2].points

(***************************************************************************)
(* The validator's rules, as the specification words them.                 *)
(***************************************************************************)
HasRegressors(req) == req.regressors # Null
HasFuture(req) == req.regressorsFuture # Null
RegressorEntries(req) == IF HasRegressors(req) THEN req.regressors[1] ELSE <<>>
FutureEntries(req) == IF HasFuture(req) THEN req.regressorsFuture[1] ELSE <<>>

LengthMismatch(req) == Len(req.ds) # Len(req.y)
TooFewObservations(req) == Len(req.ds) < 2
RegressorsOnOtherModel(req) == HasRegressors(req) /\ req.model # "PROPHET"
FutureWithoutRegressors(req) == HasFuture(req) /\ ~HasRegressors(req)
RegressorsWithoutFuture(req) == HasRegressors(req) /\ ~HasFuture(req)
WrongRegressorLength(req) ==
    \E n \in 1..Len(RegressorEntries(req)) :
        Len(RegressorEntries(req)[n].value) # Len(req.ds)
KeyMissingInFuture(req) ==
    HasFuture(req) /\ Keys(RegressorEntries(req)) \ Keys(FutureEntries(req)) # {}
WrongFutureLength(req) ==
    \E n \in 1..Len(FutureEntries(req)) :
        Len(FutureEntries(req)[n].value) # req.horizon

ViolatesSomeRule(req) ==
    \/ LengthMismatch(req)
    \/ TooFewObservations(req)
    \/ RegressorsOnOtherModel(req)
    \/ FutureWithoutRegressors(req)
    \/ RegressorsWithoutFuture(req)
    \/ WrongRegressorLength(req)
    \/ KeyMissingInFuture(req)
    \/ WrongFutureLength(req)

(***************************************************************************)
(* C3.  A request that violates a validator rule is rejected with a        *)
(* validation error (status 400) and no adapter is invoked at any point of *)
(* its run_forecast call; no series of fewer than 2 observations reaches   *)
(* an adapter.                                                             *)
(***************************************************************************)
C3_RejectedBeforeAnyBackend ==
    /\ \A j \in ItemIndices :
         ViolatesSomeRule(ReqAt(j))
         => /\ CallsOf(j) = {}
            /\ idx <= j
            /\ idx = j => pc \in {"iter", "validate", "done"}
            /\ (idx = j /\ pc = "done")
               => /\ error # Null
                  /\ error[1].status_code = 400
                  /\ response = Null
    /\ InService => \A n \in 1..Len(calls) : Len(ReqAt(calls[n].item).ds) >= 2

\* a request whose only violation is the last rule has been rejected
C3_Witness ==
    /\ endpoint = "forecast"
    /\ pc = "done"
    /\ WrongFutureLength(body)
    /\ ~LengthMismatch(body) /\ ~TooFewObservations(body)
    /\ ~WrongRegressorLength(body) /\ ~KeyMissingInFuture(body)
    /\ body.model = "PROPHET"
    /\ HasRegressors(body)
    /\ error # Null
    /\ calls = <<>>

(***************************************************************************)
(* The validator's rules by number, and the details each rule reports.     *)
(***************************************************************************)
LowestViolatedRule(req) ==
    IF LengthMismatch(req) THEN 1
    ELSE IF TooFewObservations(req) THEN 2
    ELSE IF RegressorsOnOtherModel(req) THEN 3
    ELSE IF FutureWithoutRegressors(req) THEN 4
    ELSE IF \/ RegressorsWithoutFuture(req)
            \/ WrongRegressorLength(req)
            \/ KeyMissingInFuture(req) THEN 5
    ELSE IF WrongFutureLength(req) THEN 6
    ELSE 0

RuleDetails(rule) ==
    CASE rule = 1 -> {"Training data length mismatch."}
      [] rule = 2 -> {"At least 2 observations are required."}
      [] rule = 3 -> {"Regressors are only supported for PROPHET."}
      [] rule = 4 -> {"Future regressor values were provided without regressors."}
      [] rule = 5 ->
            {"Future regressor values are required when regressors are provided."}
            \cup {"Regressor '" \o k \o "' length mismatch." : k \in RegressorKeys}
            \cup {"Future regressor '" \o k \o "' is missing." : k \in RegressorKeys}
      [] rule = 6 ->
            {"Future regressor '" \o k \o "' length mismatch." : k \in RegressorKeys}
      [] OTHER -> {}

\* the run_forecast call on item idx has left the validator
PastValidator == InCall /\ pc \notin {"iter", "validate"}

(***************************************************************************)
(* C4.  The validator reports the lowest-numbered violated rule: once      *)
(* run_forecast has left the validator on a request that violates a rule,  *)
(* the call has ended with status 400 and a detail of the lowest-numbered  *)
(* violated rule.  So a non-PROPHET request with regressors that passes    *)
(* rules 1 and 2 is rejected by rule 3, whatever its regressors hold.      *)
(***************************************************************************)
C4_FirstViolatedRuleReported ==
    (InService /\ PastValidator)
    => LET req == CurrentReq
       IN  /\ LowestViolatedRule(req) # 0
              => /\ pc = "done"
                 /\ error # Null
                 /\ error[1].status_code = 400
                 /\ error[1].detail \in RuleDetails(LowestViolatedRule(req))
           /\ (/\ req.model # "PROPHET"
               /\ HasRegressors(req)
               /\ ~LengthMismatch(req)
               /\ ~TooFewObservations(req))
              => /\ error # Null
                 /\ error[1].detail = "Regressors are only supported for PROPHET."

\* a request that violates rules 3, 5 and 6 at once is rejected by rule 3
C4_Witness ==
    /\ endpoint = "forecast"
    /\ pc = "done"
    /\ error # Null
    /\ error[1].detail = "Regressors are only supported for PROPHET."
    /\ ~LengthMismatch(body) /\ ~TooFewObservations(body)
    /\ RegressorsOnOtherModel(body)
    /\ WrongRegressorLength(body)
    /\ KeyMissingInFuture(body)
    /\ WrongFutureLength(body)

(***************************************************************************)
(* C5.  Shape of the requests that pass the validator.                     *)
(***************************************************************************)
RegressorLengthsOk(req) ==
    /\ \A n \in 1..Len(RegressorEntries(req)) :
         Len(RegressorEntries(req)[n].value) = Len(req.ds)
    /\ \A n \in 1..Len(FutureEntries(req)) :
         Len(FutureEntries(req)[n].value) = req.horizon

\* C5 as stated: regressorsFuture is present iff regressors is present and
\* non-empty, the two key sets are equal, and every sequence has its length.
C5_RequestInvariantAsStated ==
    (InService /\ PastValidator /\ error = Null)
    => LET req == CurrentReq
       IN  /\ HasFuture(req)
              <=> (HasRegressors(req) /\ RegressorEntries(req) # <<>>)
           /\ Keys(RegressorEntries(req)) = Keys(FutureEntries(req))
           /\ RegressorLengthsOk(req)

\* C5 amended: a request that passes the validator has regressorsFuture
\* present iff regressors is present (empty or not), every key of regressors
\* is a key of regressorsFuture (which may hold further keys), every
\* regressors sequence has the history length and every regressorsFuture
\* sequence has length horizon.
C5_RequestInvariantAmended ==
    (InService /\ PastValidator /\ error = Null)
    => LET req == CurrentReq
       IN  /\ HasFuture(req) <=> HasRegressors(req)
           /\ Keys(RegressorEntries(req)) \subseteq Keys(FutureEntries(req))
           /\ RegressorLengthsOk(req)

\* a request with one regressor and two future regressors reaches the dispatcher
C5_Witness ==
    /\ endpoint = "forecast"
    /\ pc = "dispatch"
    /\ Len(RegressorEntries(body)) = 1
    /\ Len(FutureEntries(body)) = 2

(***************************************************************************)
(* The median of the positive consecutive differences, by rank.            *)
(***************************************************************************)
\* positions i whose difference ds[i] - ds[i-1] is positive
PositiveGaps(ds) == {i \in 2..Len(ds) : ds[i] - ds[i - 1] > 0}

Gap(ds, i) == ds[i] - ds[i - 1]

\* the value of rank m (1 = smallest) in the multiset of positive differences
GapOfRank(ds, m) ==
    CHOOSE v \in {Gap(ds, i) : i \in PositiveGaps(ds)} :
        /\ Cardinality({i \in PositiveGaps(ds) : Gap(ds, i) < v}) < m
        /\ Cardinality({i \in PositiveGaps(ds) : Gap(ds, i) <= v}) >= m

MedianGap(ds) ==
    LET k == Cardinality(PositiveGaps(ds))
    IN  IF k % 2 = 1 THEN GapOfRank(ds, (k + 1) \div 2)
        ELSE (GapOfRank(ds, k \div 2) + GapOfRank(ds, k \div 2 + 1)) \div 2

(***************************************************************************)
(* C6.  infer_step_seconds gives 86400 for fewer than 2 timestamps or when *)
(* no consecutive difference is positive, and otherwise the median of the  *)
(* positive consecutive differences (even count: the mean of the two       *)
(* middle values, truncated).  The result is a positive integer;           *)
(* [0,3600,7200,10800] gives 3600 and [0,100,10000] gives 5000.            *)
(***************************************************************************)
C6_StepIsMedianOfPositiveGaps ==
    (endpoint = "util" /\ step # Null)
    => /\ IF Len(body) < 2 \/ PositiveGaps(body) = {}
          THEN step[1] = 86400
          ELSE step[1] = MedianGap(body)
       /\ step[1] > 0
       /\ body = <<0, 3600, 7200, 10800>> => step[1] = 3600
       /\ body = <<0, 100, 10000>> => step[1] = 5000

\* an even number of gaps whose mean is not whole: 100 and 3501 give 1800
C6_Witness ==
    /\ endpoint = "util"
    /\ body = <<0, 100, 3601>>
    /\ step = Some(1800)

(***************************************************************************)
(* C7.  infer_frequency and infer_season_length classify a step with the   *)
(* same inclusive upper boundaries: up to 3600 'h' and 24, up to 86400 'D' *)
(* and 7, up to 604800 'W' and 52, above 'MS' and 12.                      *)
(***************************************************************************)
C7_FrequencyAndSeasonAgree ==
    (endpoint = "util" /\ pc = "done")
    => LET s == step[1]
           f == freq[1]
           n == season_length[1]
       IN  /\ s <= 3600 => (f = "h" /\ n = 24)
           /\ (3600 < s /\ s <= 86400) => (f = "D" /\ n = 7)
           /\ (86400 < s /\ s <= 604800) => (f = "W" /\ n = 52)
           /\ s > 604800 => (f = "MS" /\ n = 12)
           /\ <<f, n>> \in {<<"h", 24>>, <<"D", 7>>, <<"W", 52>>, <<"MS", 12>>}

\* the boundary step 604800 has been classified weekly
C7_Witness ==
    /\ endpoint = "util"
    /\ pc = "done"
    /\ step = Some(604800)
    /\ freq = Some("W")
    /\ season_length = Some(52)

(***************************************************************************)
(* C8.  When the backend returns three sequences of length horizon,        *)
(* run_forecast returns horizon points, all future, the i-th at the        *)
(* instant last timestamp + i * step (step = infer_step_seconds of the     *)
(* request's timestamps), so consecutive points are step seconds apart.    *)
(***************************************************************************)
C8_FutureTimestamps ==
    (InService /\ ret # Null /\ fc # Null
        /\ Len(fc[1].yhat) = CurrentReq.horizon
        /\ Len(fc[1].yhat_lower) = CurrentReq.horizon
        /\ Len(fc[1].yhat_upper) = CurrentReq.horizon)
    => LET req == CurrentReq
           points == ret[1].points
           stp == infer_step_seconds(req.ds)
       IN  /\ Len(points) = req.horizon
           /\ \A i \in 1..Len(points) :
                /\ points[i].isFuture
                /\ IsIsoZ(points[i].t)
                /\ seconds_of_iso(points[i].t) = LastOf(req.ds) + i * stp
           /\ \A i \in 2..Len(points) :
                /\ seconds_of_iso(points[i].t) > seconds_of_iso(points[i - 1].t)
                /\ seconds_of_iso(points[i].t) - seconds_of_iso(points[i - 1].t) = stp

\* two points after 1984-02-29T23:30:45Z, a day apart: 1 March and 2 March
C8_Witness ==
    /\ endpoint = "forecast"
    /\ ret # Null
    /\ body.horizon = 2
    /\ Len(ret[1].points) = 2
    /\ ret[1].points[1].t = [year |-> 1984, month |-> 3, day |-> 1, hour |-> 23,
                             minute |-> 30, second |-> 45, microsecond |-> 0,
                             offset |-> "Z"]
    /\ ret[1].points[2].t.day = 2

(***************************************************************************)
(* C9.  In a successful response intervalLevel is 0.95 (95 percent) iff    *)
(* some returned point has a non-null lower bound, and null otherwise; it  *)
(* takes no other value; NEURALPROPHET always yields null.                 *)
(***************************************************************************)
C9_IntervalLevel ==
    (InService /\ ret # Null)
    => LET level == ret[1].meta.intervalLevel
           points == ret[1].points
           bounded == \E i \in 1..Len(points) : points[i].yhatLower # Null
       IN  /\ level = Some(95) <=> bounded
           /\ level = Null <=> ~bounded
           /\ level \in {Null, Some(95)}
           /\ CurrentReq.model = "NEURALPROPHET" => level = Null

\* a PROPHET request that asks for intervalWidth 0.8 is answered with 0.95
C9_Witness ==
    /\ endpoint = "forecast"
    /\ response # Null
    /\ body.model = "PROPHET"
    /\ body.config = Some(<<[key |-> "intervalWidth", value |-> 80]>>)
    /\ response[1].meta.intervalLevel = Some(95)

(***************************************************************************)
(* C10.  A request that passes validation has exactly one adapter call,    *)
(* to the adapter of its model; if that call raises, run_forecast ends in  *)
(* a status-500 'Forecast failed' error carrying the message, with no      *)
(* second call, no other adapter and no success response.                  *)
(***************************************************************************)
C10_OneAdapterNoRetry ==
    InService
    => /\ \A j \in ItemIndices :
            /\ Cardinality(CallsOf(j)) <= 1
            /\ \A n \in CallsOf(j) : calls[n].adapter = ReqAt(j).model
            /\ ((idx = j /\ pc \in {"assemble", "returned"}) \/ idx > j
                    \/ (idx = j /\ pc = "done" /\ response # Null))
               => \E n \in CallsOf(j) : ~calls[n].raised
       /\ (InCall /\ pc = "done" /\ error # Null /\ error[1].status_code # 400)
          => Cardinality(CallsOf(idx)) = 1
       /\ \A n \in 1..Len(calls) :
            calls[n].raised
            => /\ n = Len(calls)
               /\ idx = calls[n].item
               /\ pc = "done"
               /\ error = Some([status_code |-> 500,
                                detail |-> "Forecast failed: " \o calls[n].msg])
               /\ ret = Null
               /\ response = Null

\* a validated request whose backend raised: one call, a 500, no response
C10_Witness ==
    /\ endpoint = "forecast"
    /\ pc = "done"
    /\ Len(calls) = 1
    /\ calls[1].raised
    /\ calls[1].adapter = "ARIMA"
    /\ error # Null
    /\ error[1].detail = "Forecast failed: engine failure"

(***************************************************************************)
(* forecast_prophet called on its own (lines 344-427): the caller passes   *)
(* aligned ds and y of at least 2 observations, and any regressor maps.    *)
(* An exception leaves the adapter as it is: the ValueError of lines 384,  *)
(* 411, 415 and 417, or the engine's own exception.                        *)
(***************************************************************************)
ProphetCalls ==
    {r \in ForecastRequests :
        r.model = "PROPHET" /\ Len(r.ds) = Len(r.y) /\ Len(r.ds) >= 2}

InitProphet ==
    /\ endpoint = "forecast_prophet"
    /\ body \in ProphetCalls
    /\ pc = "forecast_prophet"
    /\ InitLocals

\* the class of the exception an outcome raises
exception_class(o) ==
    IF o.msg = "engine failure" THEN "Exception" ELSE "ValueError"

ProphetCall ==
    /\ pc = "forecast_prophet"
    /\ \E o \in forecast_prophet(body.ds, body.y, body.horizon, body.config,
                                 body.regressors, body.regressorsFuture) :
        /\ calls' = Append(calls, [item |-> idx, adapter |-> "PROPHET",
                                   engine |-> o.engine, raised |-> o.raised,
                                   msg |-> o.msg, out |-> o.out])
        /\ IF o.raised
           THEN /\ error' = Some([exception |-> exception_class(o),
                                  detail |-> o.msg])
                /\ UNCHANGED fc
           ELSE /\ fc' = o.out
                /\ UNCHANGED error
    /\ freq' = Some(infer_frequency(infer_step_seconds(body.ds)))
    /\ pc' = "done"
    /\ UNCHANGED <<endpoint, body, idx, out_items, step, last_ds,
                   season_length, ret, response>>

NextProphet == ProphetCall

SpecProphet == InitProphet /\ [][NextProphet]_vars

(***************************************************************************)
(* C11.  forecast_prophet, called on its own with regressors and with the  *)
(* future regressor values missing (regressors_future None, or lacking a   *)
(* regressor key), fails with a validation error raised before the         *)
(* engine's fit or predict is invoked, not with a backend failure.  (The   *)
(* code checks the future values at lines 409-418, after model.fit at line *)
(* 402; and run_forecast wraps whatever the adapter raises as status 500,  *)
(* lines 632-634.)                                                         *)
(***************************************************************************)
C11_ProphetValidatesBeforeFit ==
    (/\ endpoint = "forecast_prophet"
     /\ pc = "done"
     /\ HasRegressors(body)
     /\ (~HasFuture(body) \/ KeyMissingInFuture(body)))
    => /\ error # Null
       /\ error[1].exception = "ValueError"
       /\ calls[1].engine = <<>>

(***************************************************************************)
(* forecast_ets called on its own (lines 203-259), on evenly spaced series *)
(* of hourly, daily, weekly and 30-day cadence, with the season length     *)
(* inferred or given as config seasonLength.                               *)
(***************************************************************************)
EtsSteps == {3600, 86400, 604800, 2592000}

EtsConfigs ==
    {Null} \cup {Some(<<[key |-> "seasonLength", value |-> k]>>) : k \in 1..MaxSeason}

EtsCalls ==
    {[model |-> "ETS", ds |-> [i \in 1..n |-> (i - 1) * gap], y |-> Fill(n, 1),
      horizon |-> 1, config |-> c, regressors |-> Null,
      regressorsFuture |-> Null] :
        n \in 2..MaxObs, gap \in EtsSteps, c \in EtsConfigs}

InitEts ==
    /\ endpoint = "forecast_ets"
    /\ body \in EtsCalls
    /\ pc = "forecast_ets"
    /\ InitLocals

\* AutoETS(season_length=season_length, model=model_spec), then fit and predict
EtsCall ==
    /\ pc = "forecast_ets"
    /\ LET season == ets_season_length(body.ds, body.y, body.config)
       IN  /\ season_length' = Some(season)
           /\ \E o \in statsforecast_outcomes(body.horizon) :
                /\ calls' = Append(calls,
                                   [item |-> idx, adapter |-> "ETS",
                                    engine |-> o.engine, raised |-> o.raised,
                                    msg |-> o.msg, out |-> o.out,
                                    model_spec |-> ets_model_spec(season)])
                /\ IF o.raised
                   THEN /\ error' = Some([exception |-> "Exception",
                                          detail |-> o.msg])
                        /\ UNCHANGED fc
                   ELSE /\ fc' = o.out
                        /\ UNCHANGED error
    /\ freq' = Some(infer_frequency(infer_step_seconds(body.ds)))
    /\ pc' = "done"
    /\ UNCHANGED <<endpoint, body, idx, out_items, step, last_ds, ret, response>>

NextEts == EtsCall

SpecEts == InitEts /\ [][NextEts]_vars

(***************************************************************************)
(* Vocabulary of C12.                                                      *)
(***************************************************************************)
\* the cadence of an evenly spaced series: its first gap
Cadence(ds) == ds[2] - ds[1]

\* the nominal season length: config seasonLength, else the default by cadence
NominalSeason(req) ==
    IF req.config # Null THEN req.config[1][1].value
    ELSE CASE Cadence(req.ds) <= 3600 -> 24
           [] Cadence(req.ds) > 3600 /\ Cadence(req.ds) <= 86400 -> 7
           [] Cadence(req.ds) > 86400 /\ Cadence(req.ds) <= 604800 -> 52
           [] OTHER -> 12

EtsDone == endpoint = "forecast_ets" /\ pc = "done"

\* C12 as stated: the season length used is s when n >= 2*s, and otherwise
\* 13 if n >= 26, else 7 if n >= 14, else 1, whatever the cadence.
C12_SeasonLadderAsStated ==
    EtsDone
    => LET n == Len(body.y)
           s == NominalSeason(body)
       IN  season_length[1] =
               IF n >= 2 * s THEN s
               ELSE IF n >= 26 THEN 13
               ELSE IF n >= 14 THEN 7
               ELSE 1

\* C12 amended: for n >= 2 and s >= 1 the season length used is s when
\* n >= 2*s; otherwise 13 if n >= 26 and the inferred step is at most 604800
\* seconds (weekly or finer), else 7 if n >= 14, else 1.  It never exceeds s,
\* n >= 2 * seasonLength always holds, and the model is 'ZAN' exactly when
\* the season length used is 1 ('ZAZ' otherwise).
C12_SeasonLadderAmended ==
    EtsDone
    => LET n == Len(body.y)
           s == NominalSeason(body)
           used == season_length[1]
       IN  /\ used =
                IF n >= 2 * s THEN s
                ELSE IF n >= 26 /\ Cadence(body.ds) <= 604800 THEN 13
                ELSE IF n >= 14 THEN 7
                ELSE 1
           /\ used <= s
           /\ n >= 2 * used
           /\ calls[1].model_spec = "ZAN" <=> used = 1
           /\ calls[1].model_spec \in {"ZAN", "ZAZ"}

\* 26 observations 30 days apart with seasonLength 14: 7 is used, not 13
C12_Witness ==
    /\ EtsDone
    /\ Len(body.y) = 26
    /\ Cadence(body.ds) = 2592000
    /\ NominalSeason(body) = 14
    /\ season_length = Some(7)
    /\ calls[1].model_spec = "ZAZ"

====
